---- MODULE Spec2Model ----
(***************************************************************************)
(* Quell client: parseAST, the prototype compiler, and Quellify, the cache *)
(* reconciliation around it (quell-client/src/helpers/parseAST.js).        *)
(*                                                                         *)
(* parseAST walks a GraphQL AST with graphql-js' visit() and distils it    *)
(* into { proto, operationType, frags }.  The model runs one traversal:    *)
(* every visitor callback is one action, the traversal order is the        *)
(* depth-first enter/leave order of visit(), and BREAK ends it.            *)
(*                                                                         *)
(* Quellify parses a query, routes it by operationType (pass-through,      *)
(* mutation, query), fetches it and reconciles the response with the       *)
(* shared client cache.  Several calls may be in flight: a call runs alone *)
(* on the thread from its start to its await and from the response to its  *)
(* return.                                                                 *)
(*                                                                         *)
(* JavaScript objects (proto, frags, fieldArgs, argsObj, auxObj, responses)*)
(* are modelled as trees: functions from key paths to values, an inner     *)
(* object being marked Obj at its own path.  All JavaScript values are     *)
(* strings.                                                                *)
(***************************************************************************)
EXTENDS Naturals, Sequences, FiniteSets, TLC

(***************************************************************************)
(* JavaScript values                                                       *)
(***************************************************************************)
Null == "null"
Undefined == "undefined"
True == "true"
Obj == "{}"
BREAK == "BREAK"
NoReturn == "no-return"
UnQuellable == "unQuellable"

(***************************************************************************)
(* Object trees                                                            *)
(***************************************************************************)
EmptyObj == << >>

IsPrefix(p, q) == Len(p) <= Len(q) /\ SubSeq(q, 1, Len(p)) = p

Keys(t) == {q[1] : q \in DOMAIN t}

\* the object stored at path p of t, as a tree of its own (t.p1.p2...)
Sub(t, p) ==
    LET below == {q \in DOMAIN t : IsPrefix(p, q) /\ Len(q) > Len(p)}
        rel == {SubSeq(q, Len(p) + 1, Len(q)) : q \in below}
    IN  [r \in rel |-> t[p \o r]]

\* { ...a, ...b }: b's top-level keys replace a's
Spread(a, b) ==
    LET kept == {q \in DOMAIN a : q[1] \notin Keys(b)}
    IN  [q \in kept \cup DOMAIN b |-> IF q \in DOMAIN b THEN b[q] ELSE a[q]]

\* t with t.p = v for a primitive v
PutLeaf(t, p, v) ==
    LET kept == {q \in DOMAIN t : ~IsPrefix(p, q)}
    IN  [q \in kept \cup {p} |-> IF q = p THEN v ELSE t[q]]

\* t with t.p = o for an object o
PutObj(t, p, o) ==
    LET kept == {q \in DOMAIN t : ~IsPrefix(p, q)}
        new == {p \o r : r \in DOMAIN o}
    IN  [q \in kept \cup {p} \cup new |->
            IF q = p THEN Obj
            ELSE IF q \in new THEN o[SubSeq(q, Len(p) + 1, Len(q))]
            ELSE t[q]]

\* the object { k1: v, k2: v, ... } for the keys of a sequence
Flat(keys, v) == [q \in {<<keys[i]>> : i \in DOMAIN keys} |-> v]

(***************************************************************************)
(* Strings: String.prototype.includes('__') and toLowerCase over the       *)
(* names that occur in the documents below                                 *)
(***************************************************************************)
DunderNames == {"__typename", "__schema", "__cacheTime"}

IncludesDunder(s) == s \in DunderNames

ToLowerCase(s) ==
    CASE s = "Cities" -> "cities"
      [] s = "ID" -> "id"
      [] s = "Id" -> "id"
      [] s = "addCountry" -> "addcountry"
      [] s = "deleteCountry" -> "deletecountry"
      [] s = "updateCountry" -> "updatecountry"
      [] OTHER -> s

(***************************************************************************)
(* AST nodes (graphql-js).  selections = << >> stands for a node without   *)
(* selectionSet; directives is the length of node.directives.              *)
(***************************************************************************)
Node(kind, operation, alias, name, arguments, directives, selections) ==
    [kind |-> kind, operation |-> operation, alias |-> alias, name |-> name,
     arguments |-> arguments, directives |-> directives, selections |-> selections]

Field(alias, name, arguments, directives, selections) ==
    Node("Field", Null, alias, name, arguments, directives, selections)

Scalar(name) == Field(Null, name, << >>, 0, << >>)

FragmentSpread(name, directives) ==
    Node("FragmentSpread", Null, Null, name, << >>, directives, << >>)

InlineFragment(directives, selections) ==
    Node("InlineFragment", Null, Null, Undefined, << >>, directives, selections)

OperationDefinition(operation, directives, selections) ==
    Node("OperationDefinition", operation, Null, Undefined, << >>, directives, selections)

FragmentDefinition(name, directives, selections) ==
    Node("FragmentDefinition", Null, Null, name, << >>, directives, selections)

Arg(name, kind, value) == [name |-> name, kind |-> kind, value |-> value]

\* an argument with a literal value / with a variable ($v has no .value)
Lit(name, value) == Arg(name, "IntValue", value)
Var(name) == Arg(name, "Variable", Undefined)

(***************************************************************************)
(* visit(): the depth-first traversal.  A position is the index path of a  *)
(* node: <<definition, selection, selection, ...>>.  An event is one       *)
(* enter or leave of a node; children are visited in the order of          *)
(* graphql-js' QueryDocumentKeys (directives before selectionSet).  Name,  *)
(* Argument, value and type nodes carry no directives property and have no *)
(* visitor of their own kind, so no callback acts on them: left out.       *)
(***************************************************************************)
Ev(type, kind, pos, parent) == [type |-> type, kind |-> kind, pos |-> pos, parent |-> parent]

RECURSIVE NodeIn(_, _)
NodeIn(n, pos) == IF pos = << >> THEN n ELSE NodeIn(n.selections[Head(pos)], Tail(pos))

NodeAt(d, pos) == NodeIn(d[Head(pos)], Tail(pos))

RECURSIVE DirectiveEvents(_, _, _)
DirectiveEvents(n, pos, i) ==
    IF i > n.directives THEN << >>
    ELSE <<Ev("enter", "Directive", pos, n.kind), Ev("leave", "Directive", pos, n.kind)>>
         \o DirectiveEvents(n, pos, i + 1)

RECURSIVE NodeEvents(_, _, _)
RECURSIVE SelectionEvents(_, _, _)
SelectionEvents(n, pos, i) ==
    IF i > Len(n.selections) THEN << >>
    ELSE NodeEvents(n.selections[i], pos \o <<i>>, "SelectionSet") \o SelectionEvents(n, pos, i + 1)

NodeEvents(n, pos, parent) ==
    <<Ev("enter", n.kind, pos, parent)>>
    \o DirectiveEvents(n, pos, 1)
    \o (IF Len(n.selections) = 0 THEN << >>
        ELSE <<Ev("enter", "SelectionSet", pos, n.kind)>>
             \o SelectionEvents(n, pos, 1)
             \o <<Ev("leave", "SelectionSet", pos, n.kind)>>)
    \o <<Ev("leave", n.kind, pos, parent)>>

RECURSIVE DefinitionEvents(_, _)
DefinitionEvents(d, i) ==
    IF i > Len(d) THEN << >>
    ELSE NodeEvents(d[i], <<i>>, "Document") \o DefinitionEvents(d, i + 1)

DocumentEvents(d) == DefinitionEvents(d, 1)

(***************************************************************************)
(* The visitor object handed to visit().  A visitor named after the node's *)
(* kind takes precedence: the generic enter is called only for kinds that  *)
(* have no visitor of their own (graphql-js getVisitFn).                   *)
(***************************************************************************)
NoFn == "none"

KindVisitors == {"OperationDefinition", "FragmentDefinition", "Field", "SelectionSet"}

GetVisitFn(kind, isLeaving) ==
    IF kind \in KindVisitors
    THEN IF kind = "OperationDefinition"
         THEN (IF isLeaving THEN NoFn ELSE "OperationDefinition")
         ELSE (IF isLeaving THEN kind \o ".leave" ELSE kind \o ".enter")
    ELSE IF isLeaving THEN NoFn ELSE "enter"

\* node kinds whose nodes have a directives property
HasDirectivesProperty(kind) ==
    kind \in {"OperationDefinition", "FragmentDefinition", "Field", "FragmentSpread", "InlineFragment"}

(***************************************************************************)
(* State of one parseAST call                                              *)
(***************************************************************************)
VARIABLES
    doc,                \* AST.definitions
    userDefinedID,      \* options.__userDefinedID
    events,             \* the traversal of doc
    pc,                 \* index of the next event
    status,             \* "visiting", "broken" (BREAK), "thrown", "returned"
    proto,
    frags,
    targetObj,          \* "proto", "frags" or Undefined
    operationType,
    stack,
    selectionSetDepth,
    fieldArgs

(***************************************************************************)
(* State of the Quellify calls: the activation of every call, the records  *)
(* of the shared client cache (lokiClientCache.data), and the call that    *)
(* holds the JavaScript thread (0: none, the event loop is free)           *)
(***************************************************************************)
VARIABLES
    calls,
    lokiClientCache,
    running

quellify == <<calls, lokiClientCache, running>>

vars == <<doc, userDefinedID, events, pc, status, proto, frags, targetObj,
          operationType, stack, selectionSetDepth, fieldArgs, quellify>>

input == <<doc, userDefinedID, events>>

Visiting == status = "visiting" /\ pc <= Len(events)

Cur == events[pc]

CurNode == NodeAt(doc, Cur.pos)

At(fn) == Visiting /\ GetVisitFn(Cur.kind, Cur.type = "leave") = fn

\* visit() after a callback: BREAK ends the traversal, anything else moves on
Continue(result) ==
    IF result = BREAK
    THEN status' = "broken" /\ pc' = pc
    ELSE status' = "visiting" /\ pc' = pc + 1

(***************************************************************************)
(* enter(node): the generic visitor                                        *)
(***************************************************************************)
EnterResult(kind, node) ==
    IF HasDirectivesProperty(kind) /\ node.directives > 0 THEN BREAK ELSE NoReturn

Enter ==
    /\ At("enter")
    /\ LET result == EnterResult(Cur.kind, CurNode)
       IN  /\ operationType' = IF result = BREAK THEN UnQuellable ELSE operationType
           /\ Continue(result)
    /\ UNCHANGED <<input, proto, frags, targetObj, stack, selectionSetDepth, fieldArgs>>
    /\ UNCHANGED quellify

\* a node kind and direction for which the visitor object has no function
NoVisitor ==
    /\ At(NoFn)
    /\ Continue(NoReturn)
    /\ UNCHANGED <<input, proto, frags, targetObj, operationType, stack,
                   selectionSetDepth, fieldArgs>>
    /\ UNCHANGED quellify

(***************************************************************************)
(* OperationDefinition(node)                                               *)
(***************************************************************************)
OperationResult(node) == IF node.operation = "subscription" THEN BREAK ELSE NoReturn

VisitOperationDefinition ==
    /\ At("OperationDefinition")
    /\ targetObj' = "proto"
    /\ LET result == OperationResult(CurNode)
       IN  /\ operationType' = IF result = BREAK THEN UnQuellable ELSE CurNode.operation
           /\ Continue(result)
    /\ UNCHANGED <<input, proto, frags, stack, selectionSetDepth, fieldArgs>>
    /\ UNCHANGED quellify

(***************************************************************************)
(* FragmentDefinition.enter / leave                                        *)
(***************************************************************************)
\* selections[i].name.value throws when the selection has no name
HasName(n) == n.kind # "InlineFragment"

\* the selections the for loop gets through: all, or those before the throw
NamedPrefix(sels) ==
    LET bad == {i \in DOMAIN sels : ~HasName(sels[i])}
    IN  IF bad = {} THEN sels
        ELSE SubSeq(sels, 1, (CHOOSE i \in bad : \A j \in bad : i <= j) - 1)

SelectionNames(sels) == [i \in DOMAIN sels |-> sels[i].name]

FragmentDefinitionEnter ==
    /\ At("FragmentDefinition.enter")
    /\ stack' = Append(stack, CurNode.name)
    /\ targetObj' = "frags"
    /\ LET done == NamedPrefix(CurNode.selections)
       IN  /\ frags' = PutObj(frags, <<CurNode.name>>, Flat(SelectionNames(done), True))
           /\ IF Len(done) < Len(CurNode.selections)
              THEN status' = "thrown" /\ pc' = pc
              ELSE Continue(NoReturn)
    /\ UNCHANGED <<input, proto, operationType, selectionSetDepth, fieldArgs>>
    /\ UNCHANGED quellify

\* variant: leave() keeps the last name on the stack
PopKeep(s) == s

Pop(s) == SubSeq(s, 1, Len(s) - 1)

FragmentDefinitionLeave ==
    /\ At("FragmentDefinition.leave")
    /\ stack' = Pop(stack)
    /\ Continue(NoReturn)
    /\ UNCHANGED <<input, proto, frags, targetObj, operationType, selectionSetDepth, fieldArgs>>
    /\ UNCHANGED quellify

(***************************************************************************)
(* Field.enter / leave                                                     *)
(***************************************************************************)
ConventionalIDs == {"id", "_id", "ID", "Id"}

\* if (arg.value.kind === 'Variable' && operationType === 'query')
VariableDowngrades(arg, opType) == arg.kind = "Variable" /\ opType = "query"

\* userDefinedID ? key === userDefinedID : false
IsUserDefinedID(key) ==
    IF userDefinedID \notin {Null, Undefined, ""} THEN key = userDefinedID ELSE FALSE

IsConventionalID(key) == key \in ConventionalIDs

\* the uniqueID step of the arguments loop
AssignID(auxObj, arg) ==
    IF IsUserDefinedID(arg.name) THEN PutLeaf(auxObj, <<"__id">>, arg.value)
    ELSE IF IsConventionalID(arg.name) THEN PutLeaf(auxObj, <<"__id">>, arg.value)
    ELSE auxObj

\* one call of the forEach callback; "return BREAK" returns from the callback
\* only, so it skips the rest of this argument and nothing else
ArgStep(st, arg) ==
    IF VariableDowngrades(arg, st.operationType)
    THEN [st EXCEPT !.operationType = UnQuellable]
    ELSE LET key == arg.name
             argsObj1 == IF ~IncludesDunder(key)
                         THEN PutLeaf(st.argsObj, <<key>>, arg.value) ELSE st.argsObj
             auxObj1 == AssignID(st.auxObj, arg)
             auxObj2 == IF IncludesDunder(key)
                        THEN PutLeaf(auxObj1, <<key>>, arg.value) ELSE auxObj1
         IN  [st EXCEPT !.argsObj = argsObj1, !.auxObj = auxObj2]

RECURSIVE ForEachArg(_, _, _)
ForEachArg(st, args, i) ==
    IF i > Len(args) THEN st ELSE ForEachArg(ArgStep(st, args[i]), args, i + 1)

\* node.alias ? node.alias.value : node.name.value
FieldType(node) == IF node.alias # Null THEN node.alias ELSE node.name

\* variant: __type stored as written, without toLowerCase
AuxTypeVerbatim(node) == node.name

AuxType(node) == ToLowerCase(node.name)

AuxAlias(node) == IF node.alias # Null THEN node.alias ELSE Null

\* auxObj once the loop is over and __type, __alias, __args are stored
AuxObj(node, st) ==
    LET a1 == PutLeaf(st.auxObj, <<"__type">>, AuxType(node))
        a2 == PutLeaf(a1, <<"__alias">>, AuxAlias(node))
    IN  IF DOMAIN st.argsObj # {}
        THEN PutObj(a2, <<"__args">>, st.argsObj)
        ELSE PutLeaf(a2, <<"__args">>, Null)

\* fieldArgs[fieldType] = { ...fieldArgs[fieldType], ...auxObj }
MergeFieldArgs(fa, fieldType, auxObj) ==
    PutObj(fa, <<fieldType>>, Spread(Sub(fa, <<fieldType>>), auxObj))

FieldEnter ==
    /\ At("Field.enter")
    /\ IF IncludesDunder(CurNode.name)
       THEN /\ operationType' = UnQuellable
            /\ Continue(BREAK)
            /\ UNCHANGED <<fieldArgs, stack>>
       ELSE LET st0 == [operationType |-> operationType, argsObj |-> EmptyObj,
                        auxObj |-> PutLeaf(EmptyObj, <<"__id">>, Null)]
                st == ForEachArg(st0, CurNode.arguments, 1)
            IN  /\ operationType' = st.operationType
                /\ fieldArgs' = MergeFieldArgs(fieldArgs, FieldType(CurNode), AuxObj(CurNode, st))
                /\ stack' = Append(stack, FieldType(CurNode))
                /\ Continue(NoReturn)
    /\ UNCHANGED <<input, proto, frags, targetObj, selectionSetDepth>>
    /\ UNCHANGED quellify

FieldLeave ==
    /\ At("Field.leave")
    /\ stack' = Pop(stack)
    /\ Continue(NoReturn)
    /\ UNCHANGED <<input, proto, frags, targetObj, operationType, selectionSetDepth, fieldArgs>>
    /\ UNCHANGED quellify

(***************************************************************************)
(* SelectionSet.enter / leave                                              *)
(***************************************************************************)
\* if (!field.selectionSet) fieldsValues[field.name.value] = true
RECURSIVE ScalarNames(_, _)
ScalarNames(sels, i) ==
    IF i > Len(sels) THEN << >>
    ELSE (IF Len(sels[i].selections) = 0 THEN <<sels[i].name>> ELSE << >>)
         \o ScalarNames(sels, i + 1)

FieldsValues(node) == Flat(ScalarNames(node.selections, 1), True)

HasOwnProperty(o, key) == key \in Keys(o)

\* variant: key.includes('id') in place of the four exact names
IdentifierMissingLoose(fieldsValues) ==
    /\ ~HasOwnProperty(fieldsValues, "id")
    /\ ~HasOwnProperty(fieldsValues, "_id")
    /\ ~HasOwnProperty(fieldsValues, "uid")

\* the identifier check on the scalar children
IdentifierMissing(fieldsValues) ==
    /\ ~HasOwnProperty(fieldsValues, "id")
    /\ ~HasOwnProperty(fieldsValues, "_id")
    /\ ~HasOwnProperty(fieldsValues, "ID")
    /\ ~HasOwnProperty(fieldsValues, "Id")

\* { ...fieldsValues, ...fieldArgs[stack[stack.length - 1]] }
FieldsObject(fieldsValues, fa, stk) ==
    Spread(fieldsValues, Sub(fa, <<stk[Len(stk)]>>))

\* stack.reduce(..., targetObj): the intermediate keys at which the walk
\* does not find an object
Holes(t, stk) ==
    {i \in 1..(Len(stk) - 1) :
        LET p == SubSeq(stk, 1, i) IN p \notin DOMAIN t \/ t[p] # Obj}

FirstHole(t, stk) == CHOOSE i \in Holes(t, stk) : \A j \in Holes(t, stk) : i <= j

\* the walk throws a TypeError on undefined or null, and on a primitive that
\* is not the last intermediate
ReduceThrows(t, stk) ==
    /\ Holes(t, stk) # {}
    /\ LET k == FirstHole(t, stk)
           p == SubSeq(stk, 1, k)
       IN  p \notin DOMAIN t \/ t[p] \in {Null, Undefined} \/ k < Len(stk) - 1

\* variant: the record written under its own key at the top of the target
ReduceFlat(t, stk, fieldsObject) == PutObj(t, <<stk[Len(stk)]>>, fieldsObject)

\* the target object after the walk
Reduce(t, stk, fieldsObject) ==
    IF Holes(t, stk) = {} THEN PutObj(t, stk, fieldsObject)
    ELSE LET p == SubSeq(stk, 1, FirstHole(t, stk))
         IN  IF p \notin DOMAIN t THEN PutLeaf(t, p, Undefined) ELSE t

Target == IF targetObj = "proto" THEN proto ELSE frags

SelectionSetEnter ==
    /\ At("SelectionSet.enter")
    /\ selectionSetDepth' = selectionSetDepth + 1
    /\ IF Cur.parent = "Field"
       THEN LET fieldsValues == FieldsValues(CurNode)
            IN  IF IdentifierMissing(fieldsValues)
                THEN /\ operationType' = UnQuellable
                     /\ Continue(BREAK)
                     /\ UNCHANGED <<proto, frags>>
                ELSE LET fieldsObject == FieldsObject(fieldsValues, fieldArgs, stack)
                         written == Reduce(Target, stack, fieldsObject)
                     IN  /\ operationType' = operationType
                         /\ IF targetObj = Undefined \/ ReduceThrows(Target, stack)
                            THEN status' = "thrown" /\ pc' = pc
                            ELSE Continue(NoReturn)
                         /\ proto' = IF targetObj = "proto" THEN written ELSE proto
                         /\ frags' = IF targetObj = "frags" THEN written ELSE frags
       ELSE /\ Continue(NoReturn)
            /\ UNCHANGED <<proto, frags, operationType>>
    /\ UNCHANGED <<input, targetObj, stack, fieldArgs>>
    /\ UNCHANGED quellify

SelectionSetLeave ==
    /\ At("SelectionSet.leave")
    /\ selectionSetDepth' = selectionSetDepth - 1
    /\ Continue(NoReturn)
    /\ UNCHANGED <<input, proto, frags, targetObj, operationType, stack, fieldArgs>>
    /\ UNCHANGED quellify

(***************************************************************************)
(* return { proto, operationType, frags }                                  *)
(***************************************************************************)
VisitOver == status = "broken" \/ (status = "visiting" /\ pc > Len(events))

Return ==
    /\ VisitOver
    /\ status' = "returned"
    /\ UNCHANGED <<input, pc, proto, frags, targetObj, operationType, stack,
                   selectionSetDepth, fieldArgs>>
    /\ UNCHANGED quellify

Returned == status = "returned"

(***************************************************************************)
(* The inputs: bounded families of parsed documents, each with the         *)
(* options.__userDefinedID it is compiled under                            *)
(***************************************************************************)
MaxArgs == 2
MaxScalars == 2
MaxFields == 3
MaxDirectives == 1

RECURSIVE SeqsUpTo(_, _)
SeqsUpTo(S, n) ==
    IF n = 0 THEN {<< >>}
    ELSE SeqsUpTo(S, n - 1) \cup {Append(q, x) : q \in SeqsUpTo(S, n - 1), x \in S}

RECURSIVE Pick(_, _, _)
Pick(seq, idx, i) ==
    IF i > Len(seq) THEN << >>
    ELSE (IF i \in idx THEN <<seq[i]>> ELSE << >>) \o Pick(seq, idx, i + 1)

Scalars(names) == [i \in DOMAIN names |-> Scalar(names[i])]

Query(selections) == <<OperationDefinition("query", 0, selections)>>

Operation(kind, selections) == <<OperationDefinition(kind, 0, selections)>>

UserIDs == {Null, "uid"}

\* one root field with every argument list: { country(...) { id name } }
ArgAlphabet ==
    {Lit("id", "1"), Lit("_id", "2"), Lit("uid", "7"), Var("id"), Lit("__cacheTime", "5")}

ArgDocs ==
    {Operation(op, <<Field(Null, "country", args, 0, Scalars(<<"id", "name">>))>>) :
        op \in {"query", "mutation"}, args \in SeqsUpTo(ArgAlphabet, MaxArgs)}

\* every small set of scalar children, at the root field and one level down
ScalarAlphabet == <<"id", "_id", "ID", "Id", "uid", "name", "__typename">>

ScalarLists ==
    {Pick(ScalarAlphabet, idx, 1) :
        idx \in {x \in SUBSET DOMAIN ScalarAlphabet : x # {} /\ Cardinality(x) <= MaxScalars}}

IdDocs ==
    {Query(<<Field(Null, "country", << >>, 0, Scalars(names))>>) : names \in ScalarLists}
    \cup
    {Query(<<Field(Null, "country", << >>, 0,
               Scalars(<<"id", "name">>)
               \o <<Field(Null, "Cities", << >>, 0, Scalars(names))>>)>>) :
        names \in ScalarLists}

\* forests of up to MaxFields relation fields, nested and side by side
FieldChoices ==
    {[alias |-> Null, name |-> "country", arguments |-> << >>, scalars |-> <<"id", "name">>],
     [alias |-> Null, name |-> "country", arguments |-> << >>, scalars |-> <<"name">>],
     [alias |-> "Canada", name |-> "Cities", arguments |-> <<Lit("id", "1")>>, scalars |-> <<"id">>],
     [alias |-> Null, name |-> "country", arguments |-> <<Lit("__cacheTime", "5")>>,
      scalars |-> <<"id">>],
     [alias |-> Null, name |-> "country", arguments |-> <<Var("id")>>, scalars |-> <<"id">>]}

RECURSIVE Forests(_)
Forests(n) ==
    IF n = 0 THEN {<< >>}
    ELSE UNION {
           {<<Field(c.alias, c.name, c.arguments, 0, Scalars(c.scalars) \o kids)>> \o rest :
               c \in FieldChoices, kids \in Forests(k - 1), rest \in Forests(n - k)} :
           k \in 1..n}

NestDocs ==
    {Operation(op, sels) :
        op \in {"query", "mutation"},
        sels \in UNION {Forests(n) : n \in 1..MaxFields}}

\* directives on the operation, a root field, a scalar and a nested field
DirectiveDocs ==
    {<<OperationDefinition(op, d[1],
          <<Field(Null, "country", << >>, d[2],
              <<Scalar("id"), Field(Null, "name", << >>, d[3], << >>),
                Field(Null, "Cities", << >>, d[4], Scalars(<<"id">>))>>)>>)>> :
        op \in {"query", "mutation"},
        d \in [1..4 -> 0..MaxDirectives]}

\* fragment definitions, fragment spreads and inline fragments
FragmentBodies ==
    {Scalars(<<"id", "name">>),
     <<Scalar("id"), Field(Null, "Cities", << >>, 0, Scalars(<<"id">>))>>,
     <<Scalar("name"), Field(Null, "Cities", << >>, 0, Scalars(<<"name">>))>>,
     <<Scalar("id"), Field(Null, "Cities", <<Var("id")>>, 0, Scalars(<<"id">>))>>,
     <<InlineFragment(0, Scalars(<<"id">>))>>,
     <<Scalar("name"), InlineFragment(0, Scalars(<<"id">>))>>,
     <<FragmentSpread("Other", 0)>>}

FragmentUses(d) ==
    {<<Field(Null, "country", << >>, 0, Scalars(<<"id", "name">>))>>,
     <<Field(Null, "country", << >>, 0, <<Scalar("id"), FragmentSpread("Frag", d)>>)>>,
     <<Field(Null, "country", << >>, 0, <<FragmentSpread("Frag", d)>>)>>,
     <<FragmentSpread("Frag", d)>>,
     <<Field(Null, "country", << >>, 0,
         <<Scalar("id"),
           InlineFragment(d, <<Scalar("name"),
                                Field(Null, "Cities", << >>, 0, Scalars(<<"id">>))>>)>>)>>,
     <<InlineFragment(d, <<Field(Null, "country", << >>, 0, Scalars(<<"id">>))>>)>>}

FragmentDocs ==
    UNION {
      {Query(use) \o <<FragmentDefinition("Frag", fd, body)>>,
       <<FragmentDefinition("Frag", fd, body)>> \o Query(use)} :
      fd \in 0..MaxDirectives,
      body \in FragmentBodies,
      use \in UNION {FragmentUses(d) : d \in 0..MaxDirectives}}

\* subscriptions, introspection, and documents with two operations
OtherDocs ==
    {Operation("subscription", <<Field(Null, "country", << >>, 0, Scalars(<<"id">>))>>),
     Query(<<Field(Null, "__schema", << >>, 0, Scalars(<<"name">>))>>)}
    \cup
    {Operation(op, <<Field(Null, "country", args, 0, Scalars(<<"id">>))>>)
     \o Query(<<Field(Null, "Cities", << >>, 0, Scalars(names))>>) :
        op \in {"query", "mutation"},
        args \in {<< >>, <<Var("id")>>},
        names \in {<<"id">>, <<"name">>}}

Inputs ==
    (ArgDocs \X UserIDs) \cup (IdDocs \X UserIDs)
    \cup ((NestDocs \cup DirectiveDocs \cup FragmentDocs \cup OtherDocs) \X {Null})

(***************************************************************************)
(* Quellify(endPoint, query, mutationMap, map, queryTypeMap, userOptions)  *)
(*                                                                         *)
(* An async function: it runs on the JavaScript thread until it awaits the *)
(* network, and again from the response to its return.  Calls share the    *)
(* client cache.  The query text is represented by the document it parses  *)
(* to.  A call's log lists, in order, the calls it made on the network and *)
(* on the cache store.                                                     *)
(***************************************************************************)
MaxCalls == 2

Calls == 1..MaxCalls

Last(s) == s[Len(s)]

\* variant: the body carries a reformulated, here empty, query
StringifyReformulated(query) == [query |-> << >>]

\* JSON.stringify({ query: query })
Stringify(query) == [query |-> query]

FetchOptions(method, query) == [method |-> method, body |-> Stringify(query)]

\* let fetchOptions; left unassigned
NoFetchOptions == [method |-> Undefined, body |-> Stringify(<< >>)]

IdleCall ==
    [pc |-> "idle", path |-> "", query |-> << >>, mutationMap |-> << >>,
     proto |-> EmptyObj, operationType |-> "", frags |-> EmptyObj,
     isMutation |-> FALSE, cacheID |-> Undefined, cacheHasData |-> FALSE,
     cacheIDArr |-> << >>, cacheArr |-> << >>, fetchOptions |-> NoFetchOptions,
     parsedData |-> EmptyObj, log |-> << >>, result |-> EmptyObj]

\* the keys of the root fields of a document in source order, which is the
\* order in which parseAST adds them to proto (for ... in proto)
RECURSIVE Dedup(_, _)
Dedup(s, seen) ==
    IF s = << >> THEN << >>
    ELSE IF Head(s) \in seen THEN Dedup(Tail(s), seen)
    ELSE <<Head(s)>> \o Dedup(Tail(s), seen \cup {Head(s)})

RECURSIVE RootNames(_, _, _)
RootNames(d, i, j) ==
    IF i > Len(d) THEN << >>
    ELSE IF d[i].kind # "OperationDefinition" \/ j > Len(d[i].selections)
    THEN RootNames(d, i + 1, 1)
    ELSE (IF d[i].selections[j].kind = "Field"
          THEN <<FieldType(d[i].selections[j])>> ELSE << >>)
         \o RootNames(d, i, j + 1)

KeysInOrder(query, o) == SelectSeq(Dedup(RootNames(query, 1, 1), {}), LAMBDA k : k \in Keys(o))

(***************************************************************************)
(* The collaborators required from ./helpers: the cache key, the fragment  *)
(* expander and the normalizing cache write                                *)
(***************************************************************************)
\* generateCacheID(queryProto): a key from the field's type and identifier
GenerateCacheID(o) ==
    IF <<"__type">> \notin DOMAIN o THEN Undefined
    ELSE IF <<"__id">> \in DOMAIN o /\ o[<<"__id">>] \notin {Null, Undefined}
    THEN o[<<"__type">>] \o "--" \o o[<<"__id">>]
    ELSE o[<<"__type">>]

\* updateProtoWithFragment(proto, frags): every spread of a defined fragment
\* is replaced by the fields of the fragment
UpdateProtoWithFragment(p, f) ==
    LET spreads == {q \in DOMAIN p : p[q] = True /\ <<Last(q)>> \in DOMAIN f}
        kept == DOMAIN p \ spreads
        parent(q) == SubSeq(q, 1, Len(q) - 1)
        inlined == UNION {{<<parent(q) \o r, f[<<Last(q)>> \o r]>> :
                              r \in DOMAIN Sub(f, <<Last(q)>>)} : q \in spreads}
        added == {e[1] : e \in inlined} \ kept
    IN  [q \in kept \cup added |->
            IF q \in kept THEN p[q] ELSE (CHOOSE e \in inlined : e[1] = q)[2]]

\* the records of the cache: a key record { cacheKey, queryType } lists the
\* identifiers stored under a cache key, a data record { id, cacheID,
\* queryType, ...fields } holds one entity; props is the property order
KeyRecord(ids, queryType, isMutation) ==
    [props |-> <<"cacheKey", "queryType">>, cacheKey |-> ids, id |-> Undefined,
     cacheID |-> Undefined, queryType |-> queryType, fields |-> EmptyObj,
     isMutation |-> isMutation]

DataRecord(id, queryType, fields, isMutation) ==
    [props |-> <<"id", "cacheID", "queryType", "fields">>, cacheKey |-> << >>, id |-> id,
     cacheID |-> id, queryType |-> queryType, fields |-> fields,
     isMutation |-> isMutation]

\* the identifier of a response entity
EntityID(fields) ==
    LET ids == {k \in ConventionalIDs : <<k>> \in DOMAIN fields}
    IN  IF ids = {} THEN Undefined ELSE fields[<<CHOOSE k \in ids : TRUE>>]

\* normalizeForLokiCache(responseData, queryTypeMap, isMutation, map, proto):
\* the records of every root field of the response replace those stored
\* under the same cache key
RECURSIVE NormalizeRoots(_, _, _, _, _)
NormalizeRoots(data, responseData, isMutation, protoField, roots) ==
    IF roots = << >> THEN data
    ELSE LET k == Head(roots)
             fields == Sub(responseData, <<k>>)
             queryType == GenerateCacheID(Sub(protoField, <<k>>))
             kept == SelectSeq(data, LAMBDA r : r.queryType # queryType)
             written == kept \o <<KeyRecord(<<EntityID(fields)>>, queryType, isMutation),
                                  DataRecord(EntityID(fields), queryType, fields, isMutation)>>
         IN  NormalizeRoots(written, responseData, isMutation, protoField, Tail(roots))

NormalizeForLokiCache(data, responseData, isMutation, protoField, roots) ==
    NormalizeRoots(data, responseData, isMutation, protoField,
                   SelectSeq(roots, LAMBDA k : <<k>> \in DOMAIN responseData
                                               /\ responseData[<<k>>] = Obj))

(***************************************************************************)
(* The calls made: query text, options.__userDefinedID and mutationMap     *)
(***************************************************************************)
Country(args, selections) == Field(Null, "country", args, 0, selections)

QueryTexts ==
    {Query(<<Country(<<Lit("id", "1")>>, Scalars(<<"id", "name">>))>>),
     Query(<<Country(<<Lit("id", "1")>>, Scalars(<<"id", "name">>)),
             Field("Canada", "Cities", <<Lit("id", "2")>>, 0, Scalars(<<"id", "name">>))>>),
     Query(<<Country(<< >>, Scalars(<<"name">>))>>),
     Query(<<Country(<<Lit("id", "1")>>, <<Scalar("id"), FragmentSpread("Frag", 0)>>)>>)
        \o <<FragmentDefinition("Frag", 0, Scalars(<<"name">>))>>,
     Query(<<Country(<< >>, Scalars(<<"id">>))>>)
        \o <<FragmentDefinition("Frag", 0, <<InlineFragment(0, Scalars(<<"id">>))>>)>>}

Mutation(name, args, names) ==
    Operation("mutation", <<Field(Null, name, args, 0, Scalars(names))>>)

MutationTexts ==
    {Mutation("addCountry", <<Lit("name", "x")>>, <<"id", "name">>),
     Mutation("deleteCountry", <<Lit("id", "1")>>, <<"id">>),
     Mutation("updateCountry", <<Lit("id", "1"), Lit("name", "y")>>, <<"id", "name">>),
     Mutation("deleteCountry", << >>, <<"id">>)}

MutationMaps == {<<"addCountry", "deleteCountry", "updateCountry">>, << >>}

QuellifyInputs ==
    (QueryTexts \X {Null} \X {<<"addCountry", "deleteCountry", "updateCountry">>})
    \cup (MutationTexts \X {Null} \X MutationMaps)

(***************************************************************************)
(* The network: the server answers a request with the fields the query    *)
(* text selects (fragments inlined), each with its current value, or       *)
(* leaves some fields out; or the request fails.  Identifier fields keep   *)
(* their value across versions.                                            *)
(***************************************************************************)
Versions == {"v1", "v2"}

RECURSIVE Selected(_, _, _)
Selected(d, sels, prefix) ==
    UNION {LET n == sels[j]
           IN  IF n.kind = "Field"
               THEN {<<prefix \o <<FieldType(n)>>, IF n.selections = << >> THEN True ELSE Obj>>}
                    \cup Selected(d, n.selections, prefix \o <<FieldType(n)>>)
               ELSE IF n.kind = "InlineFragment" THEN Selected(d, n.selections, prefix)
               ELSE UNION {Selected(d, d[k].selections, prefix) :
                              k \in {l \in DOMAIN d : d[l].kind = "FragmentDefinition"
                                                       /\ d[l].name = n.name}} :
           j \in DOMAIN sels}

Asked(d) ==
    LET entries == UNION {Selected(d, d[k].selections, << >>) :
                             k \in {l \in DOMAIN d : d[l].kind = "OperationDefinition"}}
    IN  [q \in {e[1] : e \in entries} |-> (CHOOSE e \in entries : e[1] = q)[2]]

Answer(asked, version, omitted) ==
    LET fields == {q \in DOMAIN asked : Last(q) \notin omitted}
    IN  PutObj(EmptyObj, <<"data">>,
               [q \in fields |->
                   IF asked[q] = Obj THEN Obj
                   ELSE IF Last(q) \in ConventionalIDs THEN "1" ELSE version])

Responses(call) ==
    {Answer(Asked(call.query), v, {}) : v \in Versions}
    \cup {Answer(Asked(call.query), "v2", {"name"})}

(***************************************************************************)
(* Quellify, from the call to parseAST's return                            *)
(***************************************************************************)
parse == <<doc, userDefinedID, events, pc, status, proto, frags, targetObj,
           operationType, stack, selectionSetDepth, fieldArgs>>

Invoke(i) ==
    /\ running = 0
    /\ calls[i].pc = "idle"
    /\ \A j \in Calls : j < i => calls[j].pc # "idle"
    /\ \E in \in QuellifyInputs :
        /\ doc' = in[1]
        /\ userDefinedID' = in[2]
        /\ events' = DocumentEvents(in[1])
        /\ calls' = [calls EXCEPT ![i] = [IdleCall EXCEPT !.pc = "parseAST",
                                                          !.query = in[1],
                                                          !.mutationMap = in[3]]]
    /\ pc' = 1
    /\ status' = "visiting"
    /\ proto' = EmptyObj
    /\ frags' = EmptyObj
    /\ targetObj' = Undefined
    /\ operationType' = ""
    /\ stack' = << >>
    /\ selectionSetDepth' = 0
    /\ fieldArgs' = EmptyObj
    /\ running' = i
    /\ UNCHANGED lokiClientCache

\* parseAST threw: the async function rejects
ParseThrows(i) ==
    /\ running = i
    /\ calls[i].pc = "parseAST"
    /\ status = "thrown"
    /\ calls' = [calls EXCEPT ![i].pc = "rejected", ![i].log = @ \o <<"reject">>]
    /\ running' = 0
    /\ UNCHANGED <<parse, lokiClientCache>>

\* const { proto, operationType, frags } = parseAST(AST, options)
Parsed(i) == running = i /\ calls[i].pc = "parseAST" /\ status = "returned"

Destructure(call) ==
    [call EXCEPT !.proto = proto, !.operationType = operationType, !.frags = frags]

\* await fetch(endPoint, fetchOptions): the call leaves the thread
Await(call, path, fetchOptions, logged) ==
    [call EXCEPT !.pc = "fetch", !.path = path, !.fetchOptions = fetchOptions,
                 !.log = @ \o logged \o <<"fetch">>]

(***************************************************************************)
(* operationType === 'unQuellable': the pass-through                       *)
(***************************************************************************)
PassThrough(i) ==
    /\ Parsed(i)
    /\ operationType = UnQuellable
    /\ LET call == Destructure(calls[i])
       IN  calls' = [calls EXCEPT ![i] =
                        Await(call, "pass-through", FetchOptions("POST", call.query), << >>)]
    /\ running' = 0
    /\ UNCHANGED <<parse, lokiClientCache>>

(***************************************************************************)
(* operationType === 'mutation'                                            *)
(***************************************************************************)
\* for (let mutation in mutationMap)
\*   if (proto.hasOwnProperty(mutation)) mutationObject = proto[mutation]:
\* the key of the last match, or Undefined
MutationObject(mutationMap, p) ==
    LET matches == SelectSeq(mutationMap, LAMBDA m : HasOwnProperty(p, m))
    IN  IF matches = << >> THEN Undefined ELSE Last(matches)

\* variant: Object.keys takes a null __args for an empty object
ArgsLenThrowsUnmatched(p, m) ==
    IF m = Undefined THEN TRUE
    ELSE p[<<m>>] # Obj \/ <<m, "__args">> \notin DOMAIN p

\* Object.keys(mutationObject.__args) throws a TypeError
ArgsLenThrows(p, m) ==
    IF m = Undefined THEN TRUE
    ELSE IF p[<<m>>] # Obj \/ <<m, "__args">> \notin DOMAIN p THEN TRUE
    ELSE p[<<m, "__args">>] # Obj

ArgsLen(p, m) == Cardinality(Keys(Sub(p, <<m, "__args">>)))

\* String.prototype.includes over the type names of the documents below
CreationVerbs == {"add", "new", "create", "make"}

Includes(s, w) == <<s, w>> \in {<<"addcountry", "add">>}

IsCreation(type) == \E w \in CreationVerbs : Includes(type, w)

\* variant: every update or delete is a POST
MethodAny(argsLen) == "POST"

Method(argsLen) ==
    IF argsLen = 1 THEN "DELETE" ELSE IF argsLen > 1 THEN "POST" ELSE Undefined

MutationRejects(i) ==
    /\ Parsed(i)
    /\ operationType = "mutation"
    /\ ArgsLenThrows(proto, MutationObject(calls[i].mutationMap, proto))
    /\ LET call == [Destructure(calls[i]) EXCEPT !.isMutation = TRUE]
       IN  calls' = [calls EXCEPT ![i] = [call EXCEPT !.pc = "rejected", !.path = "mutation",
                                                      !.log = @ \o <<"reject">>]]
    /\ running' = 0
    /\ UNCHANGED <<parse, lokiClientCache>>

\* variant: the add mutation leaves isMutation false
InsertMutationUnflagged(i) ==
    /\ Parsed(i)
    /\ operationType = "mutation"
    /\ LET m == MutationObject(calls[i].mutationMap, proto)
           call == Destructure(calls[i])
       IN  /\ ~ArgsLenThrows(proto, m)
           /\ IsCreation(proto[<<m, "__type">>])
           /\ calls' = [calls EXCEPT ![i] =
                           Await(call, "insert", FetchOptions("POST", call.query), << >>)]
    /\ running' = 0
    /\ UNCHANGED <<parse, lokiClientCache>>

InsertMutation(i) ==
    /\ Parsed(i)
    /\ operationType = "mutation"
    /\ LET m == MutationObject(calls[i].mutationMap, proto)
           call == [Destructure(calls[i]) EXCEPT !.isMutation = TRUE]
       IN  /\ ~ArgsLenThrows(proto, m)
           /\ IsCreation(proto[<<m, "__type">>])
           /\ calls' = [calls EXCEPT ![i] =
                           Await(call, "insert", FetchOptions("POST", call.query), << >>)]
    /\ running' = 0
    /\ UNCHANGED <<parse, lokiClientCache>>

\* variant: the request is issued with the store not yet cleared
UpdateOrDeleteMutationLate(i) ==
    /\ Parsed(i)
    /\ operationType = "mutation"
    /\ LET m == MutationObject(calls[i].mutationMap, proto)
           call == [Destructure(calls[i]) EXCEPT !.isMutation = TRUE]
           method == Method(ArgsLen(proto, m))
       IN  /\ ~ArgsLenThrows(proto, m)
           /\ ~IsCreation(proto[<<m, "__type">>])
           /\ calls' = [calls EXCEPT ![i] =
                           Await(call, "update",
                                 IF method = Undefined THEN NoFetchOptions
                                 ELSE FetchOptions(method, call.query),
                                 << >>)]
    /\ lokiClientCache' = lokiClientCache
    /\ running' = 0
    /\ UNCHANGED parse

UpdateOrDeleteMutation(i) ==
    /\ Parsed(i)
    /\ operationType = "mutation"
    /\ LET m == MutationObject(calls[i].mutationMap, proto)
           call == [Destructure(calls[i]) EXCEPT !.isMutation = TRUE]
           method == Method(ArgsLen(proto, m))
       IN  /\ ~ArgsLenThrows(proto, m)
           /\ ~IsCreation(proto[<<m, "__type">>])
           /\ calls' = [calls EXCEPT ![i] =
                           Await(call, "update",
                                 IF method = Undefined THEN NoFetchOptions
                                 ELSE FetchOptions(method, call.query),
                                 <<"clear">>)]
    /\ lokiClientCache' = << >>
    /\ running' = 0
    /\ UNCHANGED parse

(***************************************************************************)
(* any other operationType: the query path, up to the fetch                *)
(***************************************************************************)
Truthy(v) == v \notin {Undefined, Null, ""}

\* for (const typeKey in proto)
\*   if (prototypeKeys.includes(typeKey)) cacheID = generateCacheID(prototype[typeKey])
RECURSIVE CacheIDLoop(_, _, _)
CacheIDLoop(cacheID, typeKeys, prototype) ==
    IF typeKeys = << >> THEN cacheID
    ELSE CacheIDLoop(IF Head(typeKeys) \in Keys(prototype)
                     THEN GenerateCacheID(Sub(prototype, <<Head(typeKeys)>>))
                     ELSE cacheID,
                     Tail(typeKeys), prototype)

CacheIDs(call, prototype) ==
    CacheIDLoop(Undefined, KeysInOrder(call.query, call.proto), prototype)

\* one property of one record in lokiJS.forEach
ScanStep(st, cachedData, property, cacheID) ==
    IF property = "queryType" /\ st.prevProperty = "cacheKey"
       /\ cachedData.queryType = cacheID
    THEN [st EXCEPT !.cacheIDArr = Append(@, cachedData.cacheKey)]
    ELSE IF property = "queryType" /\ st.prevProperty = "cacheID"
            /\ Truthy(cachedData.queryType) /\ cachedData.queryType = cacheID
    THEN [st EXCEPT !.cacheArr = Append(@, cachedData)]
    ELSE [st EXCEPT !.prevProperty = property]

RECURSIVE ScanRecord(_, _, _, _)
ScanRecord(st, cachedData, j, cacheID) ==
    IF j > Len(cachedData.props) THEN st
    ELSE ScanRecord(ScanStep(st, cachedData, cachedData.props[j], cacheID),
                    cachedData, j + 1, cacheID)

RECURSIVE Scan(_, _, _, _)
Scan(st, lokiJS, n, cacheID) ==
    IF n > Len(lokiJS) THEN st
    ELSE Scan(ScanRecord(st, lokiJS[n], 1, cacheID), lokiJS, n + 1, cacheID)

QueryPath(i) ==
    /\ Parsed(i)
    /\ operationType \notin {UnQuellable, "mutation"}
    /\ LET call == Destructure(calls[i])
           prototype == IF Keys(call.frags) # {}
                        THEN UpdateProtoWithFragment(call.proto, call.frags)
                        ELSE call.proto
           cacheID == CacheIDs(call, prototype)
           found == Scan([prevProperty |-> Undefined, cacheIDArr |-> << >>, cacheArr |-> << >>],
                         lokiClientCache, 1, cacheID)
           scanned == [call EXCEPT !.cacheID = cacheID,
                                   !.cacheIDArr = found.cacheIDArr,
                                   !.cacheArr = found.cacheArr,
                                   !.cacheHasData = Len(found.cacheIDArr) > 0]
       IN  calls' = [calls EXCEPT ![i] =
                        Await(scanned, "query", FetchOptions("POST", call.query), <<"data">>)]
    /\ running' = 0
    /\ UNCHANGED <<parse, lokiClientCache>>

(***************************************************************************)
(* From the response to the return                                         *)
(***************************************************************************)
Fetching(i, path) == running = 0 /\ calls[i].pc = "fetch" /\ calls[i].path = path

\* { data: parsedData }
Wrapped(parsedData) == PutObj(EmptyObj, <<"data">>, parsedData)

Resolve(call, parsedData, result, logged) ==
    [call EXCEPT !.pc = "resolved", !.parsedData = parsedData, !.result = result,
                 !.log = @ \o logged \o <<"resolve">>]

\* variant: a failed request resolves with a response made up locally
FetchRejectsFallback(i) ==
    /\ running = 0
    /\ calls[i].pc = "fetch"
    /\ calls' = [calls EXCEPT ![i] =
                    Resolve(@, EmptyObj, Wrapped(EmptyObj), << >>)]
    /\ UNCHANGED <<parse, lokiClientCache, running>>

\* the network request fails: await rethrows and the async function rejects
FetchRejects(i) ==
    /\ running = 0
    /\ calls[i].pc = "fetch"
    /\ calls' = [calls EXCEPT ![i].pc = "rejected", ![i].log = @ \o <<"reject">>]
    /\ UNCHANGED <<parse, lokiClientCache, running>>

\* variant: the pass-through wraps the response like the other paths
PassThroughReturnWrapped(i) ==
    /\ Fetching(i, "pass-through")
    /\ \E parsedData \in Responses(calls[i]) :
        calls' = [calls EXCEPT ![i] = Resolve(@, parsedData, Wrapped(parsedData), << >>)]
    /\ UNCHANGED <<parse, lokiClientCache, running>>

PassThroughReturn(i) ==
    /\ Fetching(i, "pass-through")
    /\ \E parsedData \in Responses(calls[i]) :
        calls' = [calls EXCEPT ![i] = Resolve(@, parsedData, parsedData, << >>)]
    /\ UNCHANGED <<parse, lokiClientCache, running>>

\* variant: the response is not written to the cache
NormalizedNever(call, parsedData) == lokiClientCache

Normalized(call, parsedData) ==
    NormalizeForLokiCache(lokiClientCache, Sub(parsedData, <<"data">>), call.isMutation,
                          call.proto, KeysInOrder(call.query, call.proto))

InsertReturn(i) ==
    /\ Fetching(i, "insert")
    /\ \E parsedData \in Responses(calls[i]) :
        /\ lokiClientCache' = Normalized(calls[i], parsedData)
        /\ calls' = [calls EXCEPT ![i] =
                        Resolve(@, parsedData, Wrapped(parsedData), <<"normalize">>)]
    /\ UNCHANGED <<parse, running>>

UpdateOrDeleteReturn(i) ==
    /\ Fetching(i, "update")
    /\ \E parsedData \in Responses(calls[i]) :
        calls' = [calls EXCEPT ![i] = Resolve(@, parsedData, Wrapped(parsedData), << >>)]
    /\ UNCHANGED <<parse, lokiClientCache, running>>

\* ID[idx] and the loop over cacheArr for one ID of cacheIDArr
IDAt(ID, idx) == IF idx + 1 \in DOMAIN ID THEN ID[idx + 1] ELSE Undefined

HasProperty(cached, property) == \E j \in DOMAIN cached.props : cached.props[j] = property

RECURSIVE MatchCached(_, _, _)
MatchCached(ID, cacheArr, idx) ==
    IF idx >= Len(cacheArr) THEN << >>
    ELSE (IF HasProperty(cacheArr[idx + 1], "id") /\ cacheArr[idx + 1].id = IDAt(ID, idx)
          THEN <<cacheArr[idx + 1]>> ELSE << >>)
         \o MatchCached(ID, cacheArr, idx + 1)

RECURSIVE TempArr(_, _)
TempArr(cacheIDArr, cacheArr) ==
    IF cacheIDArr = << >> THEN << >>
    ELSE MatchCached(Head(cacheIDArr), cacheArr, 0) \o TempArr(Tail(cacheIDArr), cacheArr)

\* a record of the cache as the object it is
RecordObject(cached) ==
    Spread(cached.fields,
           [q \in {<<"id">>, <<"cacheID">>, <<"queryType">>} |->
               IF q = <<"id">> THEN cached.id
               ELSE IF q = <<"cacheID">> THEN cached.cacheID ELSE cached.queryType])

\* Object.assign({}, tempArr, parsedData): the indices of the array become
\* keys, then the keys of parsedData
RECURSIVE ArrayObject(_, _)
ArrayObject(arr, j) ==
    IF j > Len(arr) THEN EmptyObj
    ELSE PutObj(ArrayObject(arr, j + 1), <<ToString(j - 1)>>, RecordObject(arr[j]))

Assign(tempArr, parsedData) == Spread(ArrayObject(tempArr, 1), parsedData)

QueryReturn(i) ==
    /\ Fetching(i, "query")
    /\ \E parsedData \in Responses(calls[i]) :
        /\ lokiClientCache' = Normalized(calls[i], parsedData)
        /\ calls' = [calls EXCEPT ![i] =
                        IF ~@.cacheHasData
                        THEN Resolve(@, parsedData, Wrapped(parsedData), <<"normalize">>)
                        ELSE Resolve(@, parsedData,
                                     Assign(TempArr(@.cacheIDArr, @.cacheArr), parsedData),
                                     <<"normalize", "merge">>)]
    /\ UNCHANGED <<parse, running>>

(***************************************************************************)
(* Specification                                                           *)
(***************************************************************************)
Init ==
    /\ \E in \in Inputs :
        /\ doc = in[1]
        /\ userDefinedID = in[2]
        /\ events = DocumentEvents(in[1])
    /\ pc = 1
    /\ status = "visiting"
    /\ proto = EmptyObj
    /\ frags = EmptyObj
    /\ targetObj = Undefined
    /\ operationType = ""
    /\ stack = << >>
    /\ selectionSetDepth = 0
    /\ fieldArgs = EmptyObj
    /\ calls = [i \in Calls |-> IdleCall]
    /\ lokiClientCache = << >>
    /\ running = 0

Next ==
    \/ Enter
    \/ NoVisitor
    \/ VisitOperationDefinition
    \/ FragmentDefinitionEnter
    \/ FragmentDefinitionLeave
    \/ FieldEnter
    \/ FieldLeave
    \/ SelectionSetEnter
    \/ SelectionSetLeave
    \/ Return

Spec == Init /\ [][Next]_vars

(***************************************************************************)
(* Specification of the calls                                              *)
(***************************************************************************)
QuellifyInit ==
    /\ doc = << >>
    /\ userDefinedID = Null
    /\ events = << >>
    /\ pc = 1
    /\ status = "idle"
    /\ proto = EmptyObj
    /\ frags = EmptyObj
    /\ targetObj = Undefined
    /\ operationType = ""
    /\ stack = << >>
    /\ selectionSetDepth = 0
    /\ fieldArgs = EmptyObj
    /\ calls = [i \in Calls |-> IdleCall]
    /\ lokiClientCache = << >>
    /\ running = 0

QuellifyNext ==
    \/ Next
    \/ \E i \in Calls :
        \/ Invoke(i)
        \/ ParseThrows(i)
        \/ PassThrough(i)
        \/ MutationRejects(i)
        \/ InsertMutation(i)
        \/ UpdateOrDeleteMutation(i)
        \/ QueryPath(i)
        \/ FetchRejects(i)
        \/ PassThroughReturn(i)
        \/ InsertReturn(i)
        \/ UpdateOrDeleteReturn(i)
        \/ QueryReturn(i)

QuellifySpec == QuellifyInit /\ [][QuellifyNext]_vars

(***************************************************************************)
(* Reading the document and the traversal, for the properties below        *)
(***************************************************************************)
\* the callback of event i has run
Ran(i) == i < pc \/ (i = pc /\ status # "visiting" /\ pc <= Len(events))

EnterEvents(kinds) ==
    {i \in DOMAIN events : events[i].type = "enter" /\ events[i].kind \in kinds}

NodeKinds ==
    {"OperationDefinition", "FragmentDefinition", "Field", "FragmentSpread", "InlineFragment"}

\* positions of the nodes of the document, of its fields, of its relation fields
Positions == {events[i].pos : i \in EnterEvents(NodeKinds)}

FieldPositions == {events[i].pos : i \in EnterEvents({"Field"})}

RelationPositions == {p \in FieldPositions : Len(NodeAt(doc, p).selections) > 0}

Operations == {p \in Positions : NodeAt(doc, p).kind = "OperationDefinition"}

InOperation(p) == <<p[1]>> \in Operations

\* the names under which the ancestors of a node and the node itself are requested
RECURSIVE KeyPath(_, _)
KeyPath(p, i) ==
    IF i > Len(p) THEN << >>
    ELSE LET n == NodeAt(doc, SubSeq(p, 1, i))
         IN  (IF n.kind = "Field" THEN <<IF n.alias # Null THEN n.alias ELSE n.name>>
              ELSE IF n.kind = "FragmentDefinition" THEN <<n.name>>
              ELSE << >>)
             \o KeyPath(p, i + 1)

KeyPathOf(p) == KeyPath(p, 1)

ScalarChildren(p) ==
    {n.name : n \in {NodeAt(doc, p).selections[i] : i \in DOMAIN NodeAt(doc, p).selections}
                \cap {m \in {NodeAt(doc, p).selections[i] : i \in DOMAIN NodeAt(doc, p).selections} :
                        m.kind = "Field" /\ Len(m.selections) = 0}}

HasConventionalID(p) == ScalarChildren(p) \cap ConventionalIDs # {}

HasDirectives == \E p \in Positions : NodeAt(doc, p).directives > 0

VariableArgs(p) ==
    {i \in DOMAIN NodeAt(doc, p).arguments : NodeAt(doc, p).arguments[i].kind = "Variable"}

HasVariable == \E p \in FieldPositions : VariableArgs(p) # {}

HasIntrospection == \E p \in FieldPositions : IncludesDunder(NodeAt(doc, p).name)

HasFragmentUse ==
    \E p \in Positions : NodeAt(doc, p).kind \in {"FragmentSpread", "InlineFragment"}

SingleOperation ==
    /\ Cardinality(Operations) = 1
    /\ \A p \in Operations : NodeAt(doc, p).operation \in {"query", "mutation"}

OperationKind == NodeAt(doc, CHOOSE p \in Operations : TRUE).operation

MetaKeys == {"__id", "__type", "__alias", "__args"}

IsMetaKey(k) == k \in MetaKeys \/ IncludesDunder(k)

\* the fields of the operation that have a selection set
OperationRelations == {p \in RelationPositions : InOperation(p)}

ResponseKey(p) == LET n == NodeAt(doc, p) IN IF n.alias # Null THEN n.alias ELSE n.name

\* no relation field shares its response key with a sibling
DistinctSiblingKeys ==
    \A p \in RelationPositions : \A q \in FieldPositions :
        (p # q /\ Pop(p) = Pop(q)) => ResponseKey(p) # ResponseKey(q)

\* what the query asks for: a record per relation field, true per scalar child
RequestedEntries ==
    {<<KeyPathOf(p), Obj>> : p \in OperationRelations}
    \cup UNION {{<<KeyPathOf(p) \o <<s>>, True>> : s \in ScalarChildren(p)} :
                  p \in OperationRelations}

\* the prototype without its metadata
NonMetaEntries(t) ==
    {<<q, t[q]>> : q \in {r \in DOMAIN t : \A i \in DOMAIN r : ~IsMetaKey(r[i])}}

PrototypeAsRequested ==
    /\ NonMetaEntries(proto) = RequestedEntries
    /\ \A p \in OperationRelations : \A k \in MetaKeys :
          KeyPathOf(p) \o <<k>> \in DOMAIN proto

Cacheable ==
    /\ SingleOperation
    /\ ~HasDirectives
    /\ ~HasVariable
    /\ \A p \in RelationPositions : HasConventionalID(p)

C1_Plain == Cacheable /\ ~HasIntrospection /\ ~HasFragmentUse /\ DistinctSiblingKeys

VisitedVariable ==
    \E i \in EnterEvents({"Field"}) : Ran(i) /\ VariableArgs(events[i].pos) # {}

C2_VariableDowngrades == (Returned /\ VisitedVariable) => operationType = UnQuellable

(***************************************************************************)
(* C3: a directive on any node makes parseAST return 'unQuellable' with    *)
(* the traversal aborted.                                                  *)
(***************************************************************************)
C3_DirectiveDowngrades ==
    (Returned /\ HasDirectives) => (operationType = UnQuellable /\ pc <= Len(events))

CustomIDs == IF userDefinedID \in {Null, Undefined, ""} THEN {} ELSE {userDefinedID}

C5_CustomIdentifierAccepted ==
    (Returned /\ SingleOperation /\ ~HasDirectives /\ ~HasVariable /\ ~HasIntrospection)
        => (operationType = UnQuellable
              <=> \E p \in RelationPositions :
                     ScalarChildren(p) \cap (ConventionalIDs \cup CustomIDs) = {})

(***************************************************************************)
(* C6: __id is the value of the argument named by the custom identifier    *)
(* when present, else of the first conventionally named argument, else     *)
(* null.                                                                   *)
(***************************************************************************)
JustRan(kind) ==
    /\ pc > 1
    /\ status = "visiting"
    /\ events[pc - 1].type = "enter"
    /\ events[pc - 1].kind = kind

Least(S) == CHOOSE i \in S : \A j \in S : i <= j

ClaimedID(args) ==
    LET custom == {i \in DOMAIN args : args[i].name \in CustomIDs}
        conventional == {i \in DOMAIN args : args[i].name \in ConventionalIDs}
    IN  IF custom # {} THEN args[Least(custom)].value
        ELSE IF conventional # {} THEN args[Least(conventional)].value
        ELSE Null

C6_IdentifierPrecedence ==
    (JustRan("Field") /\ VariableArgs(events[pc - 1].pos) = {})
        => LET n == NodeAt(doc, events[pc - 1].pos)
           IN  fieldArgs[<<FieldType(n), "__id">>] = ClaimedID(n.arguments)

(***************************************************************************)
(* C7: the record of a field with a selection set is written under the     *)
(* alias when there is one and under the field's name otherwise; its       *)
(* __alias is the alias or null and its __type the lower-cased name of the *)
(* field, whatever the alias.                                              *)
(***************************************************************************)
RecordAsNamed(t, p) ==
    LET n == NodeAt(doc, p)
        path == KeyPathOf(p)
    IN  /\ path \in DOMAIN t
        /\ t[path] = Obj
        /\ path[Len(path)] = (IF n.alias # Null THEN n.alias ELSE n.name)
        /\ path \o <<"__alias">> \in DOMAIN t
        /\ t[path \o <<"__alias">>] = n.alias
        /\ path \o <<"__type">> \in DOMAIN t
        /\ t[path \o <<"__type">>] = ToLowerCase(n.name)

JustWrote == JustRan("SelectionSet") /\ events[pc - 1].parent = "Field"

DistinctKeyPaths ==
    \A p \in OperationRelations : \A q \in OperationRelations :
        p # q => KeyPathOf(p) # KeyPathOf(q)

Completed == Returned /\ pc > Len(events)

C8_DowngradeTerminal ==
    [][operationType = UnQuellable =>
          (operationType' = UnQuellable /\ UNCHANGED <<stack, proto, frags>>)]_vars

(***************************************************************************)
(* C9: each root field has its own top-level entry, whose metadata comes   *)
(* from that root field's own name, alias and arguments alone.             *)
(***************************************************************************)
RootFields == {p \in OperationRelations : Len(p) = 2}

MetaOf(o) == [q \in {r \in DOMAIN o : IsMetaKey(r[1])} |-> o[q]]

\* the metadata Field.enter builds from the node alone
OwnMetadata(n) ==
    AuxObj(n, ForEachArg([operationType |-> OperationKind, argsObj |-> EmptyObj,
                          auxObj |-> PutLeaf(EmptyObj, <<"__id">>, Null)],
                         n.arguments, 1))

C9_RootMetadataIndependent ==
    (Completed /\ SingleOperation /\ ~HasVariable)
        => \A p \in RootFields :
              (\A q \in RootFields \ {p} : ResponseKey(q) # ResponseKey(p))
                 => /\ <<ResponseKey(p)>> \in DOMAIN proto
                    /\ MetaOf(Sub(proto, <<ResponseKey(p)>>)) = OwnMetadata(NodeAt(doc, p))

(***************************************************************************)
(* C10: no visitor callback throws: parseAST always returns.               *)
(***************************************************************************)
C10_NeverThrows == status # "thrown"

(***************************************************************************)
(* Reading the calls                                                       *)
(***************************************************************************)
Resolved(i) == calls[i].pc = "resolved"

Rejected(i) == calls[i].pc = "rejected"

\* call i has been routed: it is past parseAST
Routed(i) == calls[i].path # ""

\* the step is one of call i
Acts(i) == calls'[i] # calls[i]

LogPositions(log, what) == {n \in DOMAIN log : log[n] = what}

Made(i, what) == LogPositions(calls[i].log, what) # {}

Before(i, first, second) ==
    \A n \in LogPositions(calls[i].log, second) :
        \E k \in LogPositions(calls[i].log, first) : k < n

StoreCalls == {"data", "clear", "normalize"}

KeyRecords == {n \in DOMAIN lokiClientCache : lokiClientCache[n].props[1] = "cacheKey"}

DataRecords == {n \in DOMAIN lokiClientCache : lokiClientCache[n].props[1] = "id"}

\* the mutation of a call on the mutation path and its type
Matched(i) == MutationObject(calls[i].mutationMap, calls[i].proto)

MatchedType(i) == calls[i].proto[<<Matched(i), "__type">>]

OnMutationPath(i) ==
    /\ Routed(i)
    /\ calls[i].operationType = "mutation"
    /\ ~ArgsLenThrows(calls[i].proto, Matched(i))

(***************************************************************************)
(* C11.  When the operation is unQuellable, Quellify sends the original    *)
(* query text unchanged, resolves with the parsed response exactly as      *)
(* received, and makes no read, write or clear of the cache store: the     *)
(* call's log has no store call and no step of the call changes the store. *)
(***************************************************************************)
C11_State ==
    \A i \in Calls :
        (Routed(i) /\ calls[i].operationType = UnQuellable) =>
            /\ calls[i].path = "pass-through"
            /\ calls[i].fetchOptions = [method |-> "POST", body |-> [query |-> calls[i].query]]
            /\ \A w \in StoreCalls : ~Made(i, w)
            /\ Resolved(i) => calls[i].result = calls[i].parsedData

C11_PassThrough ==
    /\ []C11_State
    /\ [][\A i \in Calls :
            (Acts(i) /\ calls'[i].operationType = UnQuellable) =>
                lokiClientCache' = lokiClientCache]_vars

\* a pass-through call has resolved with fields while the store holds records
C11_Witness ==
    \E i \in Calls :
        /\ calls[i].path = "pass-through"
        /\ Resolved(i)
        /\ \E q \in DOMAIN calls[i].result : Len(q) = 3
        /\ lokiClientCache # << >>

(***************************************************************************)
(* C12.  On the mutation path, when the type of the matched mutation holds *)
(* none of create/add/new/make, the request is a DELETE for exactly one    *)
(* recorded argument and a POST for more than one, and in both cases the   *)
(* whole cache store is cleared by the call.                               *)
(***************************************************************************)
C12_State ==
    \A i \in Calls :
        (OnMutationPath(i) /\ ~IsCreation(MatchedType(i))) =>
            LET argsLen == ArgsLen(calls[i].proto, Matched(i))
            IN  /\ calls[i].path = "update"
                /\ argsLen = 1 => calls[i].fetchOptions.method = "DELETE"
                /\ argsLen > 1 => calls[i].fetchOptions.method = "POST"
                /\ Made(i, "clear")

C12_UpdateOrDelete ==
    /\ []C12_State
    /\ [][\A i \in Calls :
            (calls[i].pc = "parseAST" /\ calls'[i].path = "update") =>
                lokiClientCache' = << >>]_vars

\* a delete has resolved after a query had filled the store, which is empty
C12_Witness ==
    \E i, j \in Calls :
        /\ calls[i].path = "update"
        /\ calls[i].fetchOptions.method = "DELETE"
        /\ Resolved(i)
        /\ calls[j].path = "query"
        /\ Resolved(j)
        /\ lokiClientCache = << >>

(***************************************************************************)
(* C13.  On the mutation path, when the type of the matched mutation holds *)
(* create, add, new or make, Quellify first issues the request and only    *)
(* once the response has arrived normalizes the returned data into the     *)
(* store, with the is-mutation flag true; the store is not cleared.        *)
(***************************************************************************)
Range(s) == {s[n] : n \in DOMAIN s}

ResponseRoots(parsedData) == Keys(Sub(parsedData, <<"data">>))

C13_State ==
    \A i \in Calls :
        (OnMutationPath(i) /\ IsCreation(MatchedType(i))) =>
            /\ calls[i].path = "insert"
            /\ ~Made(i, "clear")
            /\ Before(i, "fetch", "normalize")
            /\ calls[i].pc = "fetch" => ~Made(i, "normalize")
            /\ Resolved(i) => Made(i, "normalize")

C13_Insert ==
    /\ []C13_State
    /\ [][\A i \in Calls :
            (Acts(i) /\ calls'[i].path = "insert") =>
                IF calls'[i].pc = "resolved"
                THEN LET data == Sub(calls'[i].parsedData, <<"data">>)
                         keys == {GenerateCacheID(Sub(calls[i].proto, <<k>>)) : k \in Keys(data)}
                     IN  /\ \A k \in Keys(data) :
                                \E r \in Range(lokiClientCache') :
                                    /\ r.isMutation = TRUE
                                    /\ r.props[1] = "id"
                                    /\ r.fields = Sub(data, <<k>>)
                         /\ \A r \in Range(lokiClientCache) :
                                r.queryType \notin keys => r \in Range(lokiClientCache')
                ELSE lokiClientCache' = lokiClientCache]_vars

\* an add mutation has resolved and the store holds its record next to the
\* record of a query
C13_Witness ==
    \E i \in Calls :
        /\ calls[i].path = "insert"
        /\ Resolved(i)
        /\ \E r \in Range(lokiClientCache) : r.isMutation = TRUE
        /\ \E r \in Range(lokiClientCache) : r.isMutation = FALSE

(***************************************************************************)
(* C14.  Every Quellify call that resolves has issued exactly one network  *)
(* request, whose body is the original, unmodified query text; a call on   *)
(* the query path issues it also when it found matching cached records.    *)
(***************************************************************************)
C14_State ==
    \A i \in Calls :
        Resolved(i) =>
            /\ Cardinality(LogPositions(calls[i].log, "fetch")) = 1
            /\ Before(i, "fetch", "resolve")
            /\ calls[i].fetchOptions.body = [query |-> calls[i].query]

PrototypeOf(call) ==
    IF Keys(call.frags) # {}
    THEN UpdateProtoWithFragment(call.proto, call.frags)
    ELSE call.proto

Prototype(i) == PrototypeOf(calls[i])

\* the fields the prototype asks for: paths of keys, metadata left out
RequestedPaths(i) ==
    {q \in DOMAIN Prototype(i) : \A j \in DOMAIN q : ~IsMetaKey(q[j])}

RequestedLeaves(i) == {q \in RequestedPaths(i) : Prototype(i)[q] = True}

\* the cached records the call found for the root field of a path
CachedFor(i, q) ==
    {r \in Range(calls[i].cacheArr) :
        r.queryType = GenerateCacheID(Sub(Prototype(i), <<q[1]>>))}

Merging(i) == calls[i].path = "query" /\ Resolved(i) /\ calls[i].cacheHasData

(***************************************************************************)
(* C15.  On the query path, when the store held matching records, the      *)
(* resolved response contains every requested field of every root field:   *)
(* with the fresh value where the fresh response has the field, with the   *)
(* cached value where only the cache has it.                               *)
(***************************************************************************)
C15_MergePrefersFresh ==
    \A i \in Calls :
        Merging(i) =>
            \A q \in RequestedLeaves(i) :
                LET at == <<"data">> \o q
                    fresh == calls[i].parsedData
                    result == calls[i].result
                IN  IF at \in DOMAIN fresh
                    THEN at \in DOMAIN result /\ result[at] = fresh[at]
                    ELSE \A r \in CachedFor(i, q) :
                            Tail(q) \in DOMAIN r.fields =>
                                at \in DOMAIN result /\ result[at] = r.fields[Tail(q)]

(***************************************************************************)
(* C16.  On the query path with matching cached records the resolved value *)
(* is { data: mergedResponse }, and mergedResponse has exactly the keys    *)
(* and the nesting of the prototype, with no other key.                    *)
(***************************************************************************)
C16_MergedMirrorsPrototype ==
    \A i \in Calls :
        Merging(i) =>
            /\ Keys(calls[i].result) = {"data"}
            /\ DOMAIN Sub(calls[i].result, <<"data">>) = RequestedPaths(i)

(***************************************************************************)
(* C17.  On the query path, when the store held no record matching the     *)
(* derived key, Quellify resolves with the fetched response as-is: a value *)
(* equal to what the network returned.                                     *)
(***************************************************************************)
NoCacheData(i) == calls[i].path = "query" /\ Resolved(i) /\ ~calls[i].cacheHasData

C17_FreshResponseAsIs ==
    \A i \in Calls : NoCacheData(i) => calls[i].result = calls[i].parsedData

(***************************************************************************)
(* C18.  On the query path a cache key is derived for every root field of  *)
(* the prototype and the store is consulted for each: when the store holds *)
(* records under the key of any root field, the call takes the merge path. *)
(***************************************************************************)
C18_EveryRootConsulted ==
    [][\A i \in Calls :
        (calls[i].pc = "parseAST" /\ calls'[i].path = "query") =>
            LET prototype == PrototypeOf(calls'[i])
                keys == {GenerateCacheID(Sub(prototype, <<k>>)) : k \in Keys(prototype)}
            IN  (\E n \in KeyRecords : lokiClientCache[n].queryType \in keys)
                    => calls'[i].cacheHasData]_vars

(***************************************************************************)
(* C19.  On every path, when the network request fails the call rejects    *)
(* and never resolves: a call resolves only with a response it received,   *)
(* a rejected call stays rejected; on the query path the failed call       *)
(* leaves the store as it was.                                             *)
(***************************************************************************)
C19_State ==
    \A i \in Calls :
        /\ Resolved(i) => calls[i].parsedData \in Responses(calls[i])
        /\ (Rejected(i) /\ Made(i, "fetch")) =>
               /\ calls[i].result = EmptyObj
               /\ ~Made(i, "resolve")
               /\ calls[i].path = "query" => ~Made(i, "normalize") /\ ~Made(i, "clear")

C19_NetworkFailureRejects ==
    /\ []C19_State
    /\ [][\A i \in Calls :
            /\ Rejected(i) => calls'[i] = calls[i]
            /\ (Acts(i) /\ calls'[i].path = "query" /\ calls'[i].pc # "resolved") =>
                   lokiClientCache' = lokiClientCache]_vars

\* a query call that had found cached records was rejected after its fetch,
\* and the records are still in the store
C19_Witness ==
    \E i \in Calls :
        /\ calls[i].path = "query"
        /\ Rejected(i)
        /\ Made(i, "fetch")
        /\ calls[i].cacheHasData
        /\ \E n \in KeyRecords : lokiClientCache[n].queryType = calls[i].cacheID

(***************************************************************************)
(* C20.  Within a call on the query path the request is issued before the  *)
(* merge and the normalizing cache write happens before the call resolves: *)
(* when it resolves the store holds the records of its response, so a call *)
(* started afterwards finds them in its scan of the store.                 *)
(***************************************************************************)
\* the store holds the record of root field k of the response of call
Written(data, call, k) ==
    \E r \in Range(data) :
        /\ r.props[1] = "id"
        /\ r.queryType = GenerateCacheID(Sub(call.proto, <<k>>))
        /\ r.fields = Sub(call.parsedData, <<"data", k>>)

C20_State ==
    \A i \in Calls :
        calls[i].path = "query" =>
            /\ Before(i, "fetch", "merge")
            /\ Before(i, "fetch", "normalize")
            /\ Before(i, "normalize", "resolve")
            /\ Resolved(i) =>
                   /\ Made(i, "normalize")
                   /\ \A k \in ResponseRoots(calls[i].parsedData) :
                          \/ Written(lokiClientCache, calls[i], k)
                          \/ \E j \in Calls \ {i} : Made(j, "clear") \/ Made(j, "normalize")

SidecarOf(o, p) ==
    [q \in {r \in DOMAIN o : IsMetaKey(r[1]) /\ r[1] \notin ScalarChildren(p)} |-> o[q]]

C21_MetadataIsOwnSidecar ==
    (JustWrote /\ SingleOperation /\ ~HasVariable /\ operationType # UnQuellable
        /\ InOperation(events[pc - 1].pos))
        => LET p == events[pc - 1].pos
           IN  /\ KeyPathOf(p) \in DOMAIN Target
               /\ SidecarOf(Sub(Target, KeyPathOf(p)), p)
                     = SidecarOf(OwnMetadata(NodeAt(doc, p)), p)

(***************************************************************************)
(* C22: path-stack discipline.  When SelectionSet.enter runs for a         *)
(* selection set whose parent is a field, the stack is the sequence of the *)
(* resolved names (alias or name) of the enclosing fields, outermost       *)
(* first and that field last, preceded by the fragment's name inside a     *)
(* fragment definition; when the record is written every intermediate      *)
(* node of that path is already an object of the target; and the stack is  *)
(* empty when a traversal that was not aborted has finished.               *)
(***************************************************************************)
AtFieldSelectionSet == At("SelectionSet.enter") /\ Cur.parent = "Field"

\* SelectionSet.enter goes on to the write (no early return)
AboutToWrite == AtFieldSelectionSet /\ ~IdentifierMissing(FieldsValues(CurNode))

NotAborted == status \in {"visiting", "returned"} /\ pc > Len(events)

C22_StackDiscipline ==
    /\ AtFieldSelectionSet => stack = KeyPathOf(Cur.pos)
    /\ AboutToWrite => Holes(Target, stack) = {}
    /\ NotAborted => stack = << >>

C22_Witness ==
    /\ AboutToWrite
    /\ Len(stack) >= 2
    /\ stack = KeyPathOf(Cur.pos)
    /\ \E i \in 1..(pc - 1) : events[i].type = "leave" /\ events[i].kind = "Field"
    /\ Sub(Target, SubSeq(stack, 1, Len(stack) - 1)) # EmptyObj

(***************************************************************************)
(* C23.  A mutation none of whose root fields is named in the mutation     *)
(* map, or whose matched field has no recorded arguments (__args null),    *)
(* makes the invocation reject before any request is issued and before the *)
(* cache store is cleared or written: the call is rejected as soon as it   *)
(* is routed, its log has no fetch, clear or normalize, and its steps      *)
(* leave the store as it was.                                              *)
(***************************************************************************)
NoMutationMatch(call) ==
    \A n \in DOMAIN call.mutationMap : ~HasOwnProperty(call.proto, call.mutationMap[n])

NoRecordedArgs(call) ==
    LET m == MutationObject(call.mutationMap, call.proto)
    IN  /\ m # Undefined
        /\ <<m, "__args">> \in DOMAIN call.proto
        /\ call.proto[<<m, "__args">>] = Null

UnusableMutation(call) ==
    /\ call.path # ""
    /\ call.operationType = "mutation"
    /\ NoMutationMatch(call) \/ NoRecordedArgs(call)

C23_State ==
    \A i \in Calls :
        UnusableMutation(calls[i])
            => /\ Rejected(i)
               /\ ~Made(i, "fetch")
               /\ ~Made(i, "clear")
               /\ ~Made(i, "normalize")

C23_UnusableMutationRejects ==
    /\ []C23_State
    /\ [][\A i \in Calls :
             (Acts(i) /\ UnusableMutation(calls'[i])) => lokiClientCache' = lokiClientCache]_vars

C23_Witness ==
    /\ lokiClientCache # << >>
    /\ \E i \in Calls : UnusableMutation(calls[i]) /\ NoRecordedArgs(calls[i]) /\ Rejected(i)

(***************************************************************************)
(* C24.  On the update or delete path the whole-store clear comes before   *)
(* the request.  As first stated: the store is empty all the while the     *)
(* request is in flight, and still empty when the request rejects.         *)
(***************************************************************************)
InFlight(i, path) == calls[i].pc = "fetch" /\ calls[i].path = path

\* the step is the rejection of the request of call i
RequestRejects(i) == calls[i].pc = "fetch" /\ calls'[i].pc = "rejected"

C24_Original ==
    /\ [](\A i \in Calls : InFlight(i, "update") => lokiClientCache = << >>)
    /\ [][\A i \in Calls :
             (calls[i].path = "update" /\ RequestRejects(i)) => lokiClientCache' = << >>]_vars

(***************************************************************************)
(* C24, as amended: the clear comes before the request, so the store is    *)
(* empty at the moment the request is issued, and the update or delete     *)
(* call makes no other store call and changes the store in no later step,  *)
(* whether its request resolves or rejects.  What other calls write        *)
(* meanwhile can be in the store while the request is in flight and after  *)
(* it rejects.                                                             *)
(***************************************************************************)
\* the step routes call i to the update or delete path and issues its request
IssuesUpdate(i) == calls[i].path = "" /\ calls'[i].path = "update"

C24_State ==
    \A i \in Calls :
        calls[i].path = "update"
            => /\ Made(i, "clear")
               /\ Before(i, "clear", "fetch")
               /\ Cardinality(LogPositions(calls[i].log, "clear")) = 1
               /\ ~Made(i, "normalize")
               /\ ~Made(i, "data")

C24_ClearBeforeRequest ==
    /\ []C24_State
    /\ [][\A i \in Calls :
             /\ IssuesUpdate(i) => (lokiClientCache' = << >> /\ calls'[i].pc = "fetch")
             /\ (Acts(i) /\ calls[i].path = "update") => lokiClientCache' = lokiClientCache]_vars

C24_Witness ==
    /\ lokiClientCache = << >>
    /\ \E i \in Calls : \E j \in Calls \ {i} :
          /\ calls[i].path = "update"
          /\ Rejected(i)
          /\ Resolved(j)
          /\ Made(j, "normalize")

(***************************************************************************)
(* C25.  A query whose request was issued before an update or delete       *)
(* mutation cleared the store leaves none of the records of its response   *)
(* in the store once both calls have finished: the clear is not undone by  *)
(* a query that was in flight when it ran.  Calls are numbered in the      *)
(* order of their invocation and each runs alone up to its request, so the *)
(* request of call i precedes the clear of every later call j.             *)
(***************************************************************************)
Finished(i) == Resolved(i) \/ Rejected(i)

\* call i has resolved a query whose request preceded the clear of call j
RequestedBeforeClear(i, j) ==
    /\ i < j
    /\ calls[i].path = "query"
    /\ calls[j].path = "update"
    /\ Made(j, "clear")

C25_ClearNotUndone ==
    \A i \in Calls : \A j \in Calls :
        (/\ RequestedBeforeClear(i, j)
         /\ Finished(i)
         /\ Finished(j)
         /\ \A l \in Calls \ {i} : ~Made(l, "normalize"))
            => \A k \in ResponseRoots(calls[i].parsedData) :
                   ~Written(lokiClientCache, calls[i], k)
====
